---- MODULE Spec2Model ----
(***************************************************************************)
(* node-webworker: the master-side worker controller (WorkerImpl), its     *)
(* facade (Worker) and the child launcher (libexec/worker.js), modelled as *)
(* one state machine for a single worker.                                  *)
(*                                                                         *)
(* JavaScript `undefined` is written 0 for ids (killTimeoutID, pid,        *)
(* cp.pid, stream, msgStream, fd), Omitted for an omitted timeout argument *)
(* and NoData for an absent payload.                                       *)
(***************************************************************************)
EXTENDS Integers, Sequences, FiniteSets, TLC

\* ------------------------------------------------------------------ bounds
MaxCalls == 3          \* postMessage / terminate calls made by the application
MaxChildSends == 1     \* postMessage calls made by the worker script
MaxConns == 2          \* sockets that ever connect to the worker's endpoint
MaxRawSends == 2       \* envelopes the child writes besides its launcher's own
MaxHookSets == 2       \* assignments the application makes to on* hooks

\* --------------------------------------------------------- program values
MSGTYPE_NOOP == "NOOP"
MSGTYPE_ERROR == "ERROR"
MSGTYPE_CLOSE == "CLOSE"
MSGTYPE_USER == "USER"
MSGTYPE_HANDSHAKE == "HANDSHAKE"

DefaultTimeout == 5000
Omitted == -1                       \* terminate() called without argument
Timeouts == {Omitted, 0, 200}       \* arguments the application passes
Payloads == {"a"}                   \* application payloads
NoData == "undefined"               \* payload of postMessageImpl(MSGTYPE_CLOSE)
Fds == {0, 3}                       \* 0: no descriptor attached
ChildPid == 4711                    \* pid the OS gives the spawned child
ChildSock == 1                      \* the connection worker.js opens
ExitCodes == {0, 1}                 \* process.exit(0), process.exit(1)
Socks == 1..MaxConns                \* every other one is a foreign peer
HookNames == {"message", "error", "exit"}  \* onmessage, onerror, onexit
HookValues == {0, 1, 2}             \* 0: unset; 1, 2: two callbacks
\* What can arrive on the accepted connection: every type, and an array
\* that is no envelope.
RawEnvelopes == {<<MSGTYPE_NOOP, "n">>, <<MSGTYPE_ERROR, "e">>,
                 <<MSGTYPE_USER, "u">>, <<MSGTYPE_CLOSE, "c">>,
                 <<MSGTYPE_HANDSHAKE, "h">>, <<MSGTYPE_USER>>}
\* ... each without a descriptor, and a USER envelope with one.
RawInputs == {<<m, 0>> : m \in RawEnvelopes} \cup {<< <<MSGTYPE_USER, "u">>, 3 >>}
\* The envelopes that become application events.
EventInputs == {<< <<MSGTYPE_ERROR, "e">>, 0 >>, << <<MSGTYPE_USER, "u">>, 0 >>}

VARIABLES
    killTimeoutID,   \* 0 or the id of the timer armed by terminate
    pid,             \* 0 until spawned, then the child's pid for ever
    cp,              \* [defined, pid]: the ChildProcess object; pid 0 once exited
    stream,          \* 0 or the accepted socket
    msgStream,       \* 0 or the MsgStream wrapping it
    msgQueue,        \* outbound queue of <<type, data, fd>>
    srv,             \* "binding" | "listening" | "closed"
    msgListeners,    \* number of 'msg' listeners registered on msgStream
    streamDestroyed, \* stream.destroy() was called
    ticks,           \* process.nextTick queue of the master: events to emit
    emitted,         \* events emitted by the controller, in order
    timers,          \* timers created by setTimeout: [state]
    wire,            \* every msgStream.send(m, fd) of the master, in order
    kills,           \* number of cp.kill('SIGTERM') calls
    proc,            \* OS process of the child: "none"|"running"|"dead"|"reaped"
    procExit,        \* [code, signal] the child died with
    sigPending,      \* a SIGTERM was sent to the running child
    cpc,             \* child launcher position: "none"|"boot"|"started"
    chs,             \* number of HANDSHAKE envelopes the child sent
    csends,          \* number of USER envelopes the worker script sent
    c2m,             \* <<msg, fd>> written by the child, not yet read by the master
    craw,            \* number of envelopes the child wrote past its launcher
    cread,           \* number of wire envelopes the child has read
    cgot,            \* types of the envelopes the child's 'msg' listener handled
    conns,           \* sockets that have connected to the endpoint
    posted,          \* history: every postMessageImpl call <<m, fd>>, in order
    preAccept,       \* history: value of posted when the connection was accepted
    flushes,         \* history: number of queue flushes
    nTerms,          \* history: number of terminate calls
    posTerms,        \* history: some terminate call had an effective timeout > 0
    ownExit,         \* history: the child died by its own action
    lastTerm,        \* history: what the most recent terminate call did
    nPosts,          \* history: number of postMessage calls
    rcvd,            \* history: every <<msg, fd>> the 'msg' event delivered
    hooks,           \* the facade's onmessage / onerror / onexit slots
    nHookSets,       \* number of assignments made to the slots
    invoked          \* hook invocations [hook, e], in order

ctrl == <<killTimeoutID, pid, cp, stream, msgStream, msgQueue, srv,
          msgListeners, streamDestroyed, ticks, emitted>>
env == <<timers, wire, kills, proc, procExit, sigPending>>
child == <<cpc, chs, csends, c2m, craw, cread, cgot, conns>>
hist == <<posted, preAccept, flushes, nTerms, posTerms, ownExit, lastTerm,
          nPosts, rcvd>>
facade == <<hooks, nHookSets, invoked>>
vars == <<ctrl, env, child, hist, facade>>

\* ------------------------------------------------------------ pure helpers

\* m.pop(): the queue entry [type, data, fd] loses its last element, which
\* is returned; the remaining [type, data] is what is sent.
Popped(m) == SubSeq(m, 1, Len(m) - 1)
PopResult(m) == m[Len(m)]

\* Variant: the queue is walked from its end.
FlushReversed(q) == [i \in 1..Len(q) |->
                        <<Popped(q[Len(q) + 1 - i]), PopResult(q[Len(q) + 1 - i])>>]
\* msgQueue.forEach(function(m) { var fd = m.pop(); msgStream.send(m, fd); })
QueueFlush(q) == [i \in 1..Len(q) |-> <<Popped(q[i]), PopResult(q[i])>>]

\* Variant: the queue is not reset after the flush.
QueueKept(q) == q
\* msgQueue = [];
QueueAfterFlush(q) == <<>>

\* Variant: the handler does not assert.
AcceptAlways(s, ms) == TRUE
\* assert.equal(stream, undefined); assert.equal(msgStream, undefined);
ConnAsserts(s, ms) == s = 0 /\ ms = 0

\* Variant: && in place of ||.
PostAssertBoth(q, ms) == Len(q) = 0 /\ ms = 0
\* assert.ok(msgQueue.length == 0 || !msgStream);
PostAssert(q, ms) == Len(q) = 0 \/ ms = 0

\* timeout = (timeout === undefined) ? 5000 : timeout;
EffectiveTimeout(t) == IF t = Omitted THEN DefaultTimeout ELSE t

\* Variant: the guard on killTimeoutID is missing.
NeverInitiated(k) == FALSE
\* if (killTimeoutID) return;
TerminationInitiated(k) == k # 0

\* Variant: the comparison is >= instead of >.
ArmsTimerNonNegative(t) == t >= 0
\* Variant: no deadline is ever armed.
ArmsNever(t) == FALSE
\* if (timeout > 0)
ArmsTimer(t) == t > 0

\* Variant: the callback returns without signalling.
NeverKills(c) == FALSE
\* the timer callback: if (!cp.pid) return; ... cp.kill('SIGTERM')
TimerKills(c) == c.pid # 0

\* Variant: the exit listener leaves the timer armed.
ClearNothing(ts, id) == ts
\* clearTimeout(id): a pending timer never fires; others are unaffected
ClearTimeout(ts, id) ==
    [i \in 1..Len(ts) |->
        IF i = id /\ ts[i].state = "pending"
        THEN [ts[i] EXCEPT !.state = "cleared"] ELSE ts[i]]

\* wwutil.isValidMessage: an envelope is a two-element array
isValidMessage(msg) == Len(msg) = 2

ExitEvent(code, signal) ==
    [ev |-> "exit", data |-> NoData, fd |-> 0, code |-> code, signal |-> signal]
\* Variant: the exit listener schedules no event.
NoExitTicks(tk, e) == tk
\* Variant: the exit event jumps the tick queue.
ExitTicksFirst(tk, e) == <<ExitEvent(e.code, e.signal)>> \o tk
\* process.nextTick(function() { self.emit('exit', code, signal); });
ExitTicks(tk, e) == Append(tk, ExitEvent(e.code, e.signal))

\* srv.close()
SrvClose(s) == "closed"

\* Variant: the switch has no default case, every other type falls into
\* the USER case.
handleMessageNoDefault(msg, fd) ==
    IF ~isValidMessage(msg) THEN <<>>
    ELSE IF msg[1] = MSGTYPE_NOOP THEN <<>>
    ELSE IF msg[1] = MSGTYPE_ERROR
         THEN << [ev |-> "error", data |-> msg[2], fd |-> 0,
                  code |-> 0, signal |-> ""] >>
    ELSE << [ev |-> "message", data |-> msg[2], fd |-> fd,
             code |-> 0, signal |-> ""] >>
\* handleMessage(msg, fd): the events it schedules with process.nextTick
handleMessage(msg, fd) ==
    IF ~isValidMessage(msg) THEN <<>>
    ELSE IF msg[1] = MSGTYPE_NOOP THEN <<>>
    ELSE IF msg[1] = MSGTYPE_ERROR
         THEN << [ev |-> "error", data |-> msg[2], fd |-> 0,
                  code |-> 0, signal |-> ""] >>
    ELSE IF msg[1] = MSGTYPE_USER
         THEN << [ev |-> "message", data |-> msg[2], fd |-> fd,
                  code |-> 0, signal |-> ""] >>
    ELSE <<>>

\* ---------------------------------------------------------------- initial
\* The state right after `new Worker(src)`: the controller is constructed
\* and start() has called srv.listen(); no event has been dispatched yet.
Init ==
    /\ killTimeoutID = 0
    /\ pid = 0
    /\ cp = [defined |-> FALSE, pid |-> 0]
    /\ stream = 0
    /\ msgStream = 0
    /\ msgQueue = <<>>
    /\ srv = "binding"
    /\ msgListeners = 0
    /\ streamDestroyed = FALSE
    /\ ticks = <<>>
    /\ emitted = <<>>
    /\ timers = <<>>
    /\ wire = <<>>
    /\ kills = 0
    /\ proc = "none"
    /\ procExit = [code |-> 0, signal |-> ""]
    /\ sigPending = FALSE
    /\ cpc = "none"
    /\ chs = 0
    /\ csends = 0
    /\ c2m = <<>>
    /\ cread = 0
    /\ cgot = <<>>
    /\ conns = {}
    /\ posted = <<>>
    /\ preAccept = <<>>
    /\ flushes = 0
    /\ nTerms = 0
    /\ posTerms = FALSE
    /\ ownExit = FALSE
    /\ lastTerm = "none"
    /\ nPosts = 0
    /\ rcvd = <<>>
    /\ craw = 0
    /\ hooks = [n \in HookNames |-> 0]
    /\ nHookSets = 0
    /\ invoked = <<>>

\* ------------------------------------------------------- master: start()
\* srv 'listening' listener: spawn the child, remember its pid, register
\* the 'exit' listener.
SrvListening ==
    /\ srv = "binding"
    /\ srv' = "listening"
    /\ cp' = [defined |-> TRUE, pid |-> ChildPid]
    /\ pid' = ChildPid
    /\ proc' = "running"
    /\ cpc' = "boot"
    /\ UNCHANGED <<killTimeoutID, stream, msgStream, msgQueue, msgListeners,
                   streamDestroyed, ticks, emitted>>
    /\ UNCHANGED <<timers, wire, kills, procExit, sigPending>>
    /\ UNCHANGED <<chs, csends, c2m, craw, cread, cgot, conns>>
    /\ UNCHANGED hist
    /\ UNCHANGED facade

\* -------------------------------------------- master: connection handler
\* net.createServer(function(s) {...}): a failed assertion throws before
\* anything is assigned. The child connects once it has started; foreign
\* peers are interchangeable and connect in the order of their numbers.
Connection(s) ==
    /\ srv = "listening"
    /\ s \notin conns
    /\ s = ChildSock => cpc = "started"
    /\ s # ChildSock => \A f \in Socks \ {ChildSock} : f < s => f \in conns
    /\ conns' = conns \cup {s}
    /\ IF ConnAsserts(stream, msgStream)
       THEN /\ stream' = s
            /\ msgStream' = s
            /\ wire' = wire \o QueueFlush(msgQueue)
            /\ msgQueue' = QueueAfterFlush(msgQueue)
            /\ msgListeners' = msgListeners + 1
            /\ flushes' = flushes + 1
            /\ preAccept' = posted
       ELSE UNCHANGED <<stream, msgStream, wire, msgQueue, msgListeners,
                        flushes, preAccept>>
    /\ UNCHANGED <<killTimeoutID, pid, cp, srv, streamDestroyed, ticks, emitted>>
    /\ UNCHANGED <<timers, kills, proc, procExit, sigPending>>
    /\ UNCHANGED <<cpc, chs, csends, c2m, craw, cread, cgot>>
    /\ UNCHANGED <<posted, nTerms, posTerms, ownExit, lastTerm, nPosts, rcvd>>
    /\ UNCHANGED facade

\* ------------------------------------------------ master: postMessageImpl
\* wwutil.MsgStream.send(m, fd): the envelope is written to the stream.
MsgStreamSend(w, m, fd) == Append(w, <<m, fd>>)

\* Variant: postMessageImpl writes to the stream whether or not a channel
\* exists, and never queues.
PostMessageImplNoQueue(msgType, msg, fd) ==
    /\ posted' = Append(posted, << <<msgType, msg>>, fd >>)
    /\ wire' = MsgStreamSend(wire, <<msgType, msg>>, fd)
    /\ UNCHANGED msgQueue
\* The effect of postMessageImpl(msgType, msg, fd) on wire, queue, history.
PostMessageImpl(msgType, msg, fd) ==
    IF ~PostAssert(msgQueue, msgStream)
    THEN UNCHANGED <<wire, msgQueue, posted>>
    ELSE /\ posted' = Append(posted, << <<msgType, msg>>, fd >>)
         /\ IF msgStream # 0
            THEN /\ wire' = MsgStreamSend(wire, <<msgType, msg>>, fd)
                 /\ UNCHANGED msgQueue
            ELSE /\ msgQueue' = Append(msgQueue, <<msgType, msg, fd>>)
                 /\ UNCHANGED wire

\* Application calls made so far.
NumCalls == nPosts + nTerms

\* self.postMessage(msg, fd), reached through Worker.postMessage
PostMessage(msg, fd) ==
    /\ NumCalls < MaxCalls
    /\ nPosts' = nPosts + 1
    /\ PostMessageImpl(MSGTYPE_USER, msg, fd)
    /\ UNCHANGED <<killTimeoutID, pid, cp, stream, msgStream, srv,
                   msgListeners, streamDestroyed, ticks, emitted>>
    /\ UNCHANGED <<timers, kills, proc, procExit, sigPending>>
    /\ UNCHANGED child
    /\ UNCHANGED <<preAccept, flushes, nTerms, posTerms, ownExit, lastTerm, rcvd>>
    /\ UNCHANGED facade

\* --------------------------------------------------- master: terminate()
\* Variant: terminate does not assert.
AssertsNothing(p, c) == TRUE
\* assert.notEqual(pid, undefined); assert.ok(cp.pid == pid || !cp.pid);
TermAsserts(p, c) == p # 0 /\ (c.pid = p \/ c.pid = 0)

\* self.terminate(timeout), reached through Worker.terminate
Terminate(t) ==
    /\ NumCalls < MaxCalls
    /\ nTerms' = nTerms + 1
    /\ posTerms' = (posTerms \/ EffectiveTimeout(t) > 0)
    /\ IF ~TermAsserts(pid, cp)
       THEN \* the assertion throws
            /\ lastTerm' = "assert"
            /\ UNCHANGED <<wire, msgQueue, posted, killTimeoutID, timers>>
       ELSE IF cp.pid = 0
       THEN \* the child process is already shut down
            /\ lastTerm' = "exited"
            /\ UNCHANGED <<wire, msgQueue, posted, killTimeoutID, timers>>
       ELSE IF TerminationInitiated(killTimeoutID)
       THEN /\ lastTerm' = "pending"
            /\ UNCHANGED <<wire, msgQueue, posted, killTimeoutID, timers>>
       ELSE /\ lastTerm' = "sent"
            /\ PostMessageImpl(MSGTYPE_CLOSE, NoData, 0)
            /\ IF ArmsTimer(EffectiveTimeout(t))
               THEN /\ timers' = Append(timers, [state |-> "pending"])
                    /\ killTimeoutID' = Len(timers) + 1
               ELSE UNCHANGED <<timers, killTimeoutID>>
    /\ UNCHANGED <<pid, cp, stream, msgStream, srv, msgListeners,
                   streamDestroyed, ticks, emitted>>
    /\ UNCHANGED <<kills, proc, procExit, sigPending>>
    /\ UNCHANGED child
    /\ UNCHANGED <<preAccept, flushes, ownExit, nPosts, rcvd>>
    /\ UNCHANGED facade

\* The setTimeout callback of terminate.
TimerFire(i) ==
    /\ i \in 1..Len(timers)
    /\ timers[i].state = "pending"
    /\ timers' = [timers EXCEPT ![i].state = "fired"]
    /\ killTimeoutID' = 0
    /\ IF TimerKills(cp)
       THEN /\ kills' = kills + 1
            /\ sigPending' = (sigPending \/ proc = "running")
       ELSE UNCHANGED <<kills, sigPending>>
    /\ UNCHANGED <<pid, cp, stream, msgStream, msgQueue, srv, msgListeners,
                   streamDestroyed, ticks, emitted>>
    /\ UNCHANGED <<wire, proc, procExit>>
    /\ UNCHANGED child
    /\ UNCHANGED hist
    /\ UNCHANGED facade

TimerFires == \E i \in 1..Len(timers) : TimerFire(i)

\* ------------------------------------------------ master: 'exit' listener
\* The child process is gone: node clears cp.pid and emits 'exit'.
CpExit ==
    /\ proc = "dead"
    /\ proc' = "reaped"
    /\ cp' = [cp EXCEPT !.pid = 0]
    /\ timers' = IF killTimeoutID # 0
                 THEN ClearTimeout(timers, killTimeoutID) ELSE timers
    /\ streamDestroyed' = (streamDestroyed \/ stream # 0)
    /\ srv' = SrvClose(srv)
    /\ ticks' = ExitTicks(ticks, procExit)
    /\ UNCHANGED <<killTimeoutID, pid, stream, msgStream, msgQueue,
                   msgListeners, emitted>>
    /\ UNCHANGED <<wire, kills, procExit, sigPending>>
    /\ UNCHANGED child
    /\ UNCHANGED hist
    /\ UNCHANGED facade

\* --------------------------------------------- master: inbound messages
\* msgStream 'msg' event: every registered listener runs handleMessage.
RECURSIVE Times(_, _)
Times(n, s) == IF n = 0 THEN <<>> ELSE s \o Times(n - 1, s)

\* Variant: the callback is put at the front of the tick queue.
ScheduleFirst(tk, evs) == evs \o tk
\* process.nextTick(f): f joins the end of the tick queue.
Schedule(tk, evs) == tk \o evs

\* Variant: the emit is not wrapped in process.nextTick.
EmitsAtOnce(em, evs) == em \o evs
\* What the 'msg' callback itself emits: nothing, every emit is wrapped in
\* process.nextTick.
EmittedOnReceive(em, evs) == em

MsgRecv ==
    /\ msgStream = ChildSock
    /\ ~streamDestroyed
    /\ c2m # <<>>
    /\ c2m' = Tail(c2m)
    /\ rcvd' = Append(rcvd, Head(c2m))
    /\ LET evs == Times(msgListeners, handleMessage(Head(c2m)[1], Head(c2m)[2]))
       IN /\ ticks' = Schedule(ticks, evs)
          /\ emitted' = EmittedOnReceive(emitted, evs)
    /\ UNCHANGED <<killTimeoutID, pid, cp, stream, msgStream, msgQueue, srv,
                   msgListeners, streamDestroyed>>
    /\ UNCHANGED env
    /\ UNCHANGED <<cpc, chs, csends, craw, cread, cgot, conns>>
    /\ UNCHANGED <<posted, preAccept, flushes, nTerms, posTerms, ownExit,
                   lastTerm, nPosts>>
    /\ UNCHANGED facade

\* Variant: every listener tests and calls onmessage.
DispatchToOnMessage(inv, hk, e) ==
    IF hk["message"] # 0 THEN Append(inv, [hook |-> hk["message"], e |-> e])
    ELSE inv
\* The facade's listener for an event: the hook in the slot is called if
\* the slot is set (if (self.onmessage) self.onmessage(e), and alike).
FacadeDispatch(inv, hk, e) ==
    IF hk[e.ev] # 0 THEN Append(inv, [hook |-> hk[e.ev], e |-> e]) ELSE inv

\* One process.nextTick callback runs: self.emit(...), which calls the
\* facade's listener.
NextTick ==
    /\ ticks # <<>>
    /\ emitted' = Append(emitted, Head(ticks))
    /\ ticks' = Tail(ticks)
    /\ invoked' = FacadeDispatch(invoked, hooks, Head(ticks))
    /\ UNCHANGED <<killTimeoutID, pid, cp, stream, msgStream, msgQueue, srv,
                   msgListeners, streamDestroyed>>
    /\ UNCHANGED env
    /\ UNCHANGED child
    /\ UNCHANGED hist
    /\ UNCHANGED <<hooks, nHookSets>>

\* The application assigns worker.onmessage / onerror / onexit (0 clears).
SetHook(n, h) ==
    /\ nHookSets < MaxHookSets
    /\ nHookSets' = nHookSets + 1
    /\ hooks' = [hooks EXCEPT ![n] = h]
    /\ UNCHANGED invoked
    /\ UNCHANGED ctrl
    /\ UNCHANGED env
    /\ UNCHANGED child
    /\ UNCHANGED hist

\* ------------------------------------------------------ child: worker.js
\* The launcher's main module runs: net.createConnection(sockPath), the
\* listeners are registered, the worker script is run.
ChildStart ==
    /\ proc = "running"
    /\ cpc = "boot"
    /\ cpc' = "started"
    /\ UNCHANGED ctrl
    /\ UNCHANGED env
    /\ UNCHANGED <<chs, csends, c2m, craw, cread, cgot, conns>>
    /\ UNCHANGED hist
    /\ UNCHANGED facade

\* s 'connect' listener: ms.send([MSGTYPE_HANDSHAKE, process.pid])
ChildConnect ==
    /\ proc = "running"
    /\ cpc = "started"
    /\ chs = 0
    /\ chs' = chs + 1
    /\ c2m' = Append(c2m, << <<MSGTYPE_HANDSHAKE, "pid">>, 0 >>)
    /\ UNCHANGED ctrl
    /\ UNCHANGED env
    /\ UNCHANGED <<cpc, csends, craw, cread, cgot, conns>>
    /\ UNCHANGED hist
    /\ UNCHANGED facade

\* workerCtx.postMessage(msg): ms.send([MSGTYPE_USER, msg])
ChildPostMessage(msg) ==
    /\ proc = "running"
    /\ cpc = "started"
    /\ csends < MaxChildSends
    /\ csends' = csends + 1
    /\ c2m' = Append(c2m, << <<MSGTYPE_USER, msg>>, 0 >>)
    /\ UNCHANGED ctrl
    /\ UNCHANGED env
    /\ UNCHANGED <<cpc, chs, craw, cread, cgot, conns>>
    /\ UNCHANGED hist
    /\ UNCHANGED facade

\* The worker script, which is handed `require` and `process`, writes an
\* envelope of its own making on the connection, with or without a
\* descriptor.
ChildRawSend(m, fd) ==
    /\ proc = "running"
    /\ cpc = "started"
    /\ craw < MaxRawSends
    /\ craw' = craw + 1
    /\ c2m' = Append(c2m, <<m, fd>>)
    /\ UNCHANGED ctrl
    /\ UNCHANGED env
    /\ UNCHANGED <<cpc, chs, csends, cread, cgot, conns>>
    /\ UNCHANGED hist
    /\ UNCHANGED facade

\* Whether the child's 'msg' listener ends the process for this envelope:
\* an invalid envelope is logged, NOOP breaks, USER calls onmessage, every
\* other type is logged as unexpected. No case exits.
ChildMsgExits(msg) ==
    IF ~isValidMessage(msg) THEN FALSE
    ELSE IF msg[1] = MSGTYPE_NOOP THEN FALSE
    ELSE IF msg[1] = MSGTYPE_USER THEN FALSE
    ELSE FALSE

\* ms 'msg' listener of the child
ChildRecv ==
    /\ proc = "running"
    /\ cpc = "started"
    /\ stream = ChildSock
    /\ cread < Len(wire)
    /\ cread' = cread + 1
    /\ cgot' = Append(cgot, wire[cread + 1][1][1])
    /\ IF ChildMsgExits(wire[cread + 1][1])
       THEN /\ proc' = "dead"
            /\ procExit' = [code |-> 0, signal |-> ""]
            /\ ownExit' = TRUE
       ELSE UNCHANGED <<proc, procExit, ownExit>>
    /\ UNCHANGED ctrl
    /\ UNCHANGED <<timers, wire, kills, sigPending>>
    /\ UNCHANGED <<cpc, chs, csends, c2m, craw, conns>>
    /\ UNCHANGED <<posted, preAccept, flushes, nTerms, posTerms, lastTerm,
                   nPosts, rcvd>>
    /\ UNCHANGED facade

\* The child ends by itself: workerCtx.close() / process.exit(code), an
\* uncaught error of the script, or a launcher failure (process.exit(1)).
ChildExits(code) ==
    /\ proc = "running"
    /\ proc' = "dead"
    /\ procExit' = [code |-> code, signal |-> ""]
    /\ ownExit' = TRUE
    /\ UNCHANGED ctrl
    /\ UNCHANGED <<timers, wire, kills, sigPending>>
    /\ UNCHANGED child
    /\ UNCHANGED <<posted, preAccept, flushes, nTerms, posTerms, lastTerm,
                   nPosts, rcvd>>
    /\ UNCHANGED facade

\* The SIGTERM sent by cp.kill ends the child.
ChildKilled ==
    /\ proc = "running"
    /\ sigPending
    /\ proc' = "dead"
    /\ procExit' = [code |-> -1, signal |-> "SIGTERM"]
    /\ UNCHANGED ctrl
    /\ UNCHANGED <<timers, wire, kills, sigPending>>
    /\ UNCHANGED child
    /\ UNCHANGED hist
    /\ UNCHANGED facade

\* ------------------------------------------------------------------- spec
\* The worker's lifecycle: the application's calls, the connection, the
\* deadline timer, the child process and what it reads.
Next ==
    \/ SrvListening
    \/ \E s \in Socks : Connection(s)
    \/ \E msg \in Payloads, fd \in Fds : PostMessage(msg, fd)
    \/ \E t \in Timeouts : Terminate(t)
    \/ TimerFires
    \/ CpExit
    \/ NextTick
    \/ ChildStart
    \/ ChildRecv
    \/ \E code \in ExitCodes : ChildExits(code)
    \/ ChildKilled

Spec == Init /\ [][Next]_vars

\* The event loop runs every due timer and every nextTick callback, and the
\* OS reports the exit of a dead child.
Fairness == WF_vars(TimerFires) /\ WF_vars(NextTick) /\ WF_vars(CpExit)
FairSpec == Spec /\ Fairness

\* The lifecycle together with the envelopes the child sends.
MsgNext ==
    \/ Next
    \/ MsgRecv
    \/ ChildConnect
    \/ \E msg \in Payloads : ChildPostMessage(msg)

MsgSpec == Init /\ [][MsgNext]_vars

\* What the master receives: the connection, every kind of inbound
\* envelope, the tick queue and the child's end.
InboundNext ==
    \/ SrvListening
    \/ ChildStart
    \/ Connection(ChildSock)
    \/ ChildConnect
    \/ \E msg \in Payloads : ChildPostMessage(msg)
    \/ \E i \in RawInputs : ChildRawSend(i[1], i[2])
    \/ MsgRecv
    \/ NextTick
    \/ \E code \in ExitCodes : ChildExits(code)
    \/ CpExit

InboundSpec == Init /\ [][InboundNext]_vars

\* What the facade hands to the application's hooks.
FacadeNext ==
    \/ SrvListening
    \/ ChildStart
    \/ Connection(ChildSock)
    \/ \E i \in EventInputs : ChildRawSend(i[1], i[2])
    \/ MsgRecv
    \/ NextTick
    \/ \E code \in ExitCodes : ChildExits(code)
    \/ CpExit
    \/ \E n \in HookNames, h \in HookValues : SetHook(n, h)

FacadeSpec == Init /\ [][FacadeNext]_vars

\* ----------------------------------------------------------------- claims
ExitEvents(es) == SelectSeq(es, LAMBDA e : e.ev = "exit")
CloseCount(es) == Len(SelectSeq(es, LAMBDA e : e[1][1] = MSGTYPE_CLOSE))
DeadlinePending == \E i \in 1..Len(timers) : timers[i].state = "pending"
DeadlineFired == \E i \in 1..Len(timers) : timers[i].state = "fired"

\* C1: once the connection is accepted, the envelopes handed to the channel
\* are exactly the postMessageImpl calls in call order; those made before
\* the accept form the head of the wire, ahead of every later one.
C1_QueueThenFlushOrder ==
    msgStream # 0 =>
        /\ wire = posted
        /\ Len(preAccept) <= Len(wire)
        /\ SubSeq(wire, 1, Len(preAccept)) = preAccept
C1_Witness ==
    /\ msgStream # 0
    /\ Len(preAccept) = 2
    /\ preAccept[1] # preAccept[2]
    /\ Len(wire) = 3

\* C2: the outbound queue is empty or the channel is undefined, and every
\* envelope posted is on the wire or in the queue exactly once.
C2_MutualExclusion ==
    /\ msgQueue = <<>> \/ msgStream = 0
    /\ Len(wire) + Len(msgQueue) = Len(posted)
    /\ msgStream = 0 => wire = <<>>
C2_Witness ==
    /\ msgStream # 0
    /\ flushes = 1
    /\ Len(preAccept) >= 1
    /\ Len(posted) > Len(preAccept)

\* C3: once a channel is bound, no step (in particular no further inbound
\* connection) replaces it, flushes the queue again or registers another
\* inbound message handler.
C3_AtMostOneConnection ==
    [][stream # 0 =>
          /\ stream' = stream
          /\ msgStream' = msgStream
          /\ flushes' = flushes
          /\ msgListeners' = msgListeners]_vars
C3_Witness ==
    /\ stream # 0
    /\ Cardinality(conns) >= 2
    /\ msgListeners = 1
    /\ proc = "dead"

\* C4: a terminate call made while a deadline is pending on a running worker
\* changes nothing of the controller, the wire or the timers.
C4_IdempotentTerminate ==
    [][(/\ nTerms' = nTerms + 1
        /\ cp.pid # 0
        /\ killTimeoutID # 0
        /\ DeadlinePending)
       => UNCHANGED <<ctrl, timers, wire, kills, posted>>]_vars
C4_Witness ==
    /\ lastTerm = "pending"
    /\ nTerms >= 2
    /\ Len(timers) = 1
    /\ timers[1].state = "pending"
    /\ CloseCount(posted) = 1

\* C5: once the deadline has fired, a terminate call made before the exit is
\* observed sends or queues no CLOSE envelope and arms no timer.
C5_NoRearmAfterFire ==
    [][(/\ nTerms' = nTerms + 1
        /\ cp.pid # 0
        /\ DeadlineFired)
       => UNCHANGED <<wire, msgQueue, timers, killTimeoutID>>]_vars

C7_ForcedTermination ==
    /\ (DeadlinePending /\ cp.pid # 0) ~> (kills >= 1 \/ ownExit)
    /\ [][(/\ cp.pid # 0
           /\ \E i \in 1..Len(timers) :
                 timers[i].state = "pending" /\ timers'[i].state = "fired")
          => kills' = kills + 1]_vars
    /\ (proc = "reaped") ~>
          (/\ Len(ExitEvents(emitted)) = 1
           /\ srv = "closed"
           /\ stream # 0 => streamDestroyed)
    /\ [](Len(ExitEvents(ticks)) + Len(ExitEvents(emitted)) <= 1)
C7_Witness ==
    /\ kills >= 1
    /\ ~ownExit
    /\ proc = "reaped"
    /\ stream # 0
    /\ streamDestroyed
    /\ srv = "closed"
    /\ emitted = <<ExitEvent(-1, "SIGTERM")>>

\* C8: as long as every terminate call passed timeout 0, no timer has been
\* armed and no kill signal has been sent.
C8_ZeroTimeout ==
    ~posTerms => (timers = <<>> /\ killTimeoutID = 0 /\ kills = 0)
C8_Witness ==
    /\ ~posTerms
    /\ nTerms >= 2
    /\ CloseCount(posted) >= 2
    /\ proc = "running"

\* C9: a child that has handled a CLOSE envelope is no longer running.
C9_ChildExitsOnClose ==
    (\E i \in 1..Len(cgot) : cgot[i] = MSGTYPE_CLOSE) => proc # "running"

\* C10: when the child's exit is observed before any connection was
\* accepted, the endpoint is closed, no channel is touched, exactly one exit
\* event with the child's code and signal is scheduled, and it is
\* eventually emitted.
C10_PrematureExit ==
    /\ []((proc = "reaped" /\ stream = 0) =>
            /\ srv = "closed"
            /\ ~streamDestroyed
            /\ msgStream = 0
            /\ ExitEvents(ticks) \o ExitEvents(emitted)
                  = <<ExitEvent(procExit.code, procExit.signal)>>)
    /\ (proc = "reaped" /\ stream = 0) ~>
          (ExitEvents(emitted) = <<ExitEvent(procExit.code, procExit.signal)>>)
C10_Witness ==
    /\ proc = "reaped"
    /\ stream = 0
    /\ cpc = "boot"
    /\ emitted = <<ExitEvent(1, "")>>

\* C11: what the claim expects of one received envelope: an ERROR envelope
\* gives one error event with the payload, a USER envelope one message event
\* with the payload and the descriptor received (0: none), every other
\* envelope and every invalid one gives nothing.
C11_Expected(msg, fd) ==
    IF ~isValidMessage(msg) THEN <<>>
    ELSE CASE msg[1] = MSGTYPE_ERROR ->
                << [ev |-> "error", data |-> msg[2], fd |-> 0,
                    code |-> 0, signal |-> ""] >>
           [] msg[1] = MSGTYPE_USER ->
                << [ev |-> "message", data |-> msg[2], fd |-> fd,
                    code |-> 0, signal |-> ""] >>
           [] OTHER -> <<>>
Received == Len(rcvd') = Len(rcvd) + 1
Emitting == Len(emitted') = Len(emitted) + 1

\* C11: every received envelope schedules exactly the events of its type
\* (none for NOOP, HANDSHAKE, CLOSE and invalid envelopes) and changes
\* nothing else of the controller.
C11_Classification ==
    [][Received =>
         /\ ticks' = ticks \o C11_Expected(rcvd'[Len(rcvd')][1],
                                          rcvd'[Len(rcvd')][2])
         /\ UNCHANGED <<killTimeoutID, pid, cp, stream, msgStream, msgQueue,
                        srv, msgListeners, streamDestroyed>>
         /\ UNCHANGED <<timers, wire, kills>>]_vars
C11_Witness ==
    /\ Len(rcvd) = 3
    /\ \E i \in 1..3 : rcvd[i] = << <<MSGTYPE_USER, "u">>, 3 >>
    /\ \E i \in 1..3 : rcvd[i] = << <<MSGTYPE_CLOSE, "c">>, 0 >>
    /\ \E i \in 1..3 : rcvd[i][1][1] = MSGTYPE_HANDSHAKE
    /\ ticks = <<>>
    /\ Len(emitted) = 1
    /\ emitted[1].ev = "message"
    /\ emitted[1].fd = 3

\* C13: when an event is emitted the hook then in its slot is called once,
\* or nobody if the slot is unset; no other step calls a hook, so nothing
\* is replayed when a hook is set later.
C13_HookAtEmitTime ==
    [][/\ Emitting =>
            invoked' = IF hooks[Head(ticks).ev] # 0
                       THEN Append(invoked, [hook |-> hooks[Head(ticks).ev],
                                             e |-> Head(ticks)])
                       ELSE invoked
       /\ ~Emitting => invoked' = invoked]_vars
C13_Witness ==
    /\ Len(emitted) = 2
    /\ emitted[1].ev # emitted[2].ev
    /\ hooks[emitted[1].ev] # 0
    /\ Len(invoked) = 1
    /\ invoked[1].e = emitted[2]
    /\ invoked[1].hook = 2

\* The message and error events of a sequence of events.
AppEvents(es) == SelectSeq(es, LAMBDA e : e.ev # "exit")
RECURSIVE EventsOf(_)
EventsOf(rs) ==
    IF rs = <<>> THEN <<>>
    ELSE C11_Expected(Head(rs)[1], Head(rs)[2]) \o EventsOf(Tail(rs))

\* C14: the message and error events emitted, followed by those still
\* scheduled, are the events of the ERROR and USER envelopes received, one
\* each, in the order of receipt.
C14_InboundOrder ==
    AppEvents(emitted \o ticks) = EventsOf(rcvd)
C14_Witness ==
    /\ Len(rcvd) >= 3
    /\ ticks = <<>>
    /\ Len(AppEvents(emitted)) = 2
    /\ AppEvents(emitted)[1].ev = "error"
    /\ AppEvents(emitted)[2].ev = "message"

\* C15: the child has sent no USER envelope through postMessage before its
\* HANDSHAKE, and sends the HANDSHAKE at most once.
C15_HandshakeFirst ==
    /\ csends > 0 => chs >= 1
    /\ chs <= 1

\* C16: the step that receives an envelope emits nothing and calls no hook;
\* every event emitted is one a previous step had scheduled.
C16_DeferredEmit ==
    [][/\ Received => (emitted' = emitted /\ invoked' = invoked)
       /\ Emitting => (/\ ticks # <<>>
                       /\ emitted'[Len(emitted')] = Head(ticks)
                       /\ rcvd' = rcvd)]_vars
C16_Witness ==
    /\ rcvd # <<>>
    /\ rcvd[Len(rcvd)][1][1] \in {MSGTYPE_USER, MSGTYPE_ERROR}
    /\ isValidMessage(rcvd[Len(rcvd)][1])
    /\ emitted = <<>>
    /\ Len(ticks) = 1

\* C19: no event follows the exit event, neither emitted nor scheduled, and
\* nothing is received once the exit was observed.
C19_ExitLast ==
    /\ [](\A i \in 1..Len(emitted \o ticks) :
            (emitted \o ticks)[i].ev = "exit" => i = Len(emitted \o ticks))
    /\ [][proc = "reaped" => rcvd' = rcvd]_vars
C19_Witness ==
    /\ Len(emitted) = 3
    /\ emitted[3].ev = "exit"
    /\ emitted[1].ev = "message"
    /\ emitted[2].ev = "error"
    /\ c2m # <<>>

Posting == nPosts' = nPosts + 1
Terminating == nTerms' = nTerms + 1

QueuedCloses == Len(SelectSeq(msgQueue, LAMBDA m : m[1] = MSGTYPE_CLOSE))
TerminationInProgress == CloseCount(posted) > 0 \/ DeadlinePending

\* C17 as stated: whenever a CLOSE was sent or queued or a deadline is
\* armed, the channel is defined.
C17_OnlyFromConnected == TerminationInProgress => msgStream # 0

\* C17: a termination is in progress only once the child was spawned; while
\* the channel is undefined every CLOSE envelope of it is held in the
\* outbound queue and nothing was written.
C17_FromSpawnedOrConnected ==
    TerminationInProgress =>
        /\ pid # 0
        /\ msgStream = 0 => (wire = <<>> /\ QueuedCloses = CloseCount(posted))
C17_Witness ==
    /\ msgStream = 0
    /\ pid # 0
    /\ cp.pid # 0
    /\ QueuedCloses = 1
    /\ DeadlinePending
    /\ conns = {}

\* C18: terminate called while no child was spawned fails its assertion and
\* changes nothing: no CLOSE envelope is queued or sent, no deadline armed.
C18_TerminateBeforeSpawn ==
    [][(Terminating /\ pid = 0) =>
         /\ lastTerm' = "assert"
         /\ UNCHANGED ctrl
         /\ UNCHANGED <<timers, wire, kills, posted>>]_vars
C18_Witness ==
    /\ lastTerm = "assert"
    /\ srv = "binding"
    /\ nTerms = 1
    /\ msgQueue = <<>>
    /\ timers = <<>>

\* C20: after terminate(0) sent its CLOSE, with no deadline ever armed and
\* the child still running, a terminate with a positive timeout sends one
\* more CLOSE envelope and arms the deadline.
C20_ZeroThenEscalate ==
    [][(/\ Terminating
        /\ CloseCount(posted) > 0
        /\ ~posTerms
        /\ posTerms'
        /\ cp.pid # 0) =>
         /\ lastTerm' = "sent"
         /\ CloseCount(posted') = CloseCount(posted) + 1
         /\ Len(timers') = Len(timers) + 1
         /\ timers'[Len(timers')].state = "pending"
         /\ killTimeoutID' = Len(timers')]_vars
C20_Witness ==
    /\ nTerms = 2
    /\ CloseCount(posted) = 2
    /\ Len(timers) = 1
    /\ timers[1].state = "pending"
    /\ killTimeoutID = 1
    /\ cp.pid # 0

====
